---- MODULE Spec2Model ----
(***************************************************************************)
(* A model of the attention and sequence-encoding components of            *)
(* code/modules.py: masked_softmax, SimpleSoftmaxLayer, BasicAttn,         *)
(* SelfAttn, BidirectionAttn and RNNEncoder, and of initialize_model and   *)
(* the mode dispatch of main in code/main.py.                              *)
(*                                                                         *)
(* Tensors are nested sequences (a rank-3 tensor is a sequence of          *)
(* matrices, a matrix a sequence of rows).  Scores and hidden values are   *)
(* float32 numbers that happen to be integers; the additive mask constant  *)
(* -1e30 is scaled to NEG_LARGE so that it fits TLC's integers, and        *)
(* float32 addition keeps its rounding: a small addend is lost next to     *)
(* NEG_LARGE.  Probabilities are exact fractions <<numerator,              *)
(* denominator>> in lowest terms.                                          *)
(***************************************************************************)
EXTENDS Integers, Sequences, FiniteSets, TLC

VARIABLES
    pc,     \* "idle" before the forward pass, "returned" after it, "raised" on an error
    fn,     \* the name of the function or method that ran last
    args,   \* the arguments it ran on
    ret,    \* what it returned
    enc,    \* the fields of the RNNEncoder object (mode, num_layers, cells, ...)
    store,  \* the graph's variable store and the variables each layer obtained
    sess    \* the session: how often it was restored and initialized

vars == <<pc, fn, args, ret, enc, store, sess>>

\* ------------------------------------------------------------------ bounds

\* At most MaxBuilds SelfAttn layers are built into one graph.
MaxBuilds == 3

\* Sequence lengths (rows, columns, context and question lengths) are 1..MaxLen.
MaxLen == 2
\* Input tensors are drawn from the family Gen(seed, ...), seed in 0..MaxSeed.
MaxSeed == 3
\* Batch sizes are 1..MaxBatch.
MaxBatch == 1
\* hidden_size and the vector sizes are 1..MaxHidden.
MaxHidden == 1
\* The padded sequence length of the encoder's input is 1..MaxSeqLen.
MaxSeqLen == 3
\* num_layers is 1..MaxLayers.
MaxLayers == 2
\* Hidden states of the recurrent cells are kept in 0..CellMod-1.
CellMod == 5
\* exp(d) is 0 in float32 once d is below the underflow threshold; the model's
\* threshold in its base-2 exponent.
ExpRange == 24

\* ------------------------------------------------------------- arithmetic

Abs(x) == IF x < 0 THEN -x ELSE x

Sign(x) == IF x < 0 THEN -1 ELSE IF x > 0 THEN 1 ELSE 0

RECURSIVE GCD(_, _)
GCD(a, b) == IF b = 0 THEN a ELSE GCD(b, a % b)

\* The fraction n/d (d > 0) in lowest terms.
Rat(n, d) ==
    LET g == GCD(Abs(n), d) IN <<n \div g, d \div g>>

RatMul(p, q) == Rat(p[1] * q[1], p[2] * q[2])

\* p + q over the least common denominator.
RatAdd(p, q) ==
    LET g == GCD(p[2], q[2])
    IN  Rat(p[1] * (q[2] \div g) + q[1] * (p[2] \div g), (p[2] \div g) * q[2])

Zero == <<0, 1>>

One == <<1, 1>>

RECURSIVE RatSum(_)
RatSum(s) == IF s = <<>> THEN Zero ELSE RatAdd(Head(s), RatSum(Tail(s)))

RECURSIVE Sum(_)
Sum(s) == IF s = <<>> THEN 0 ELSE Head(s) + Sum(Tail(s))

RECURSIVE Max(_)
Max(s) ==
    IF Len(s) = 1 THEN s[1]
    ELSE LET m == Max(Tail(s)) IN IF s[1] >= m THEN s[1] ELSE m

\* The sequence s with its elements computed, so that no later read
\* computes them again; Vec, Mat and Ten do so for tensors of rank 1, 2, 3.
AsTuple(s) == s \o <<>>

Vec(s) == AsTuple(s)

Mat(m) == AsTuple([i \in 1..Len(m) |-> AsTuple(m[i])])

Ten(t) == AsTuple([b \in 1..Len(t) |-> Mat(t[b])])

Transpose(t) == Mat([j \in 1..Len(t[1]) |-> [i \in 1..Len(t) |-> t[i][j]]])

\* ------------------------------------------------------- float32 behaviour

\* The constant of modules.py:396, -1e30, scaled to TLC's integer range.
NEG_LARGE == -1000000000

\* float32 keeps 24 significant bits: x + y rounds to x when y is below half
\* a unit in the last place of x.
Float32Lost(x, y) == Abs(y) <= Abs(x) \div (2 ^ 25)

\* tf.add on two float32 scalars.
FloatAdd(x, y) ==
    IF Float32Lost(x, y) THEN x
    ELSE IF Float32Lost(y, x) THEN y
    ELSE x + y

\* exp(d) for d <= 0, in units of 2^-ExpRange and in base 2: strictly
\* increasing in d, 0 below the underflow threshold.
Exp(d) == IF d < -ExpRange THEN 0 ELSE 2 ^ (ExpRange + d)

\* ---------------------------------------------------------- masked_softmax

\* A softmax that gives 0 to every entry that was shifted by -1e30, also in
\* a line in which every entry was.
SoftmaxVecMaskedToZero(x) ==
    LET kept == {i \in 1..Len(x) : x[i] > NEG_LARGE \div 2}
        z == Sum([i \in 1..Len(x) |-> IF i \in kept THEN Exp(0) ELSE 0])
    IN  Vec([i \in 1..Len(x) |->
            IF i \in kept THEN Rat(Exp(0), z) ELSE Zero])

\* tf.nn.softmax on one vector: exp(x - max) / sum(exp(x - max)).
SoftmaxVec(x) ==
    LET m == Max(x)
        w == Vec([i \in 1..Len(x) |-> Exp(FloatAdd(x[i], -m))])
        z == Sum(w)
    IN  Vec([i \in 1..Len(x) |-> Rat(w[i], z)])

\* A softmax that ignores dim and always normalizes the last axis.
SoftmaxLastAxis(x, dim) == Mat([i \in 1..Len(x) |-> SoftmaxVec(x[i])])

\* tf.nn.softmax(x, dim) on a matrix: dim = 1 normalizes each row, dim = 0
\* each column.
Softmax(x, dim) ==
    IF dim = 1 THEN Mat([i \in 1..Len(x) |-> SoftmaxVec(x[i])])
    ELSE Transpose(Mat([j \in 1..Len(x[1]) |-> SoftmaxVec(Transpose(x)[j])]))

\* Broadcasting of a (1, n) or (m, n) matrix against m rows.
BroadcastRow(t, i) == IF Len(t) = 1 THEN t[1] ELSE t[i]

\* An additive mask with the roles of 0 and 1 exchanged.
ExpMaskInverted(mask) ==
    Mat([i \in 1..Len(mask) |-> [j \in 1..Len(mask[i]) |-> mask[i][j] * NEG_LARGE]])

\* (1 - tf.cast(mask, 'float')) * (-1e30)
ExpMask(mask) ==
    Mat([i \in 1..Len(mask) |-> [j \in 1..Len(mask[i]) |-> (1 - mask[i][j]) * NEG_LARGE]])

\* tf.add(logits, exp_mask), exp_mask broadcast over the rows of logits.
AddMask(logits, exp_mask) ==
    Mat([i \in 1..Len(logits) |->
        [j \in 1..Len(logits[i]) |->
            FloatAdd(logits[i][j], BroadcastRow(exp_mask, i)[j])]])

\* masked_softmax(logits, mask, dim) on a matrix.
masked_softmax(logits, mask, dim) ==
    LET exp_mask == ExpMask(mask)
        masked_logits == AddMask(logits, exp_mask)
        prob_dist == Softmax(masked_logits, dim)
    IN  [masked_logits |-> masked_logits, prob_dist |-> prob_dist]

\* masked_softmax(logits, mask, 2) on a (batch, m, n) tensor: the last axis
\* of every batch element.
masked_softmax_3d(logits, mask) ==
    LET r == AsTuple([b \in 1..Len(logits) |-> masked_softmax(logits[b], mask[b], 1)])
    IN  [masked_logits |-> AsTuple([b \in 1..Len(logits) |-> r[b].masked_logits]),
         prob_dist |-> AsTuple([b \in 1..Len(logits) |-> r[b].prob_dist])]

\* ----------------------------------------------------------------- dropout

\* A dropout that multiplies by the noise at every keep probability.
DropoutEntryNoisy(x, keep_den, keep) == RatMul(x, <<keep_den * keep, 1>>)

\* tf.nn.dropout(x, keep_prob) on one entry, keep_prob = 1/keep_den:
\* x / keep_prob * floor(keep_prob + u), u uniform in [0, 1).  The floor is 1
\* for keep_prob = 1 and the random bit `keep` otherwise.
DropoutEntry(x, keep_den, keep) ==
    IF keep_den = 1 THEN x
    ELSE RatMul(x, <<keep_den * keep, 1>>)

\* The random bits of one dropout call: all kept (nseed = 0) or a checkerboard.
NoiseBit(nseed, b, i, k) == IF nseed = 0 THEN 1 ELSE (b + i + k) % 2

\* tf.nn.dropout on a (batch, n, d) tensor of fractions.
Dropout(x, keep_den, nseed) ==
    Ten([b \in 1..Len(x) |-> [i \in 1..Len(x[b]) |-> [k \in 1..Len(x[b][i]) |->
        DropoutEntry(x[b][i][k], keep_den, NoiseBit(nseed, b, i, k))]]])

\* ------------------------------------------------------------------ matmul

\* tf.matmul(a, b) on integer matrices.
MatMul(a, b) ==
    Mat([i \in 1..Len(a) |-> [j \in 1..Len(b[1]) |->
        Sum([k \in 1..Len(b) |-> a[i][k] * b[k][j]])]])

\* tf.matmul(p, v): a matrix of fractions times an integer matrix.
MatMulRat(p, v) ==
    Mat([i \in 1..Len(p) |-> [j \in 1..Len(v[1]) |->
        RatSum([k \in 1..Len(v) |-> RatMul(p[i][k], <<v[k][j], 1>>)])]])

\* --------------------------------------------------------------- BasicAttn

\* A logits mask that ignores values_mask: no value is masked.
AttnLogitsMaskNoExpand(values_mask) ==
    Ten([b \in 1..Len(values_mask) |-> <<[v \in 1..Len(values_mask[b]) |-> 1]>>])

\* tf.expand_dims(values_mask, 1): (batch, 1, num_values).
AttnLogitsMask(values_mask) ==
    Ten([b \in 1..Len(values_mask) |-> <<values_mask[b]>>])

\* BasicAttn.build_graph(values, values_mask, keys).
BasicAttn_build_graph(values, values_mask, keys, keep_den, nseed) ==
    LET values_t == AsTuple([b \in 1..Len(values) |-> Transpose(values[b])])
        attn_logits == AsTuple([b \in 1..Len(values) |-> MatMul(keys[b], values_t[b])])
        attn_logits_mask == AttnLogitsMask(values_mask)
        attn_dist == masked_softmax_3d(attn_logits, attn_logits_mask).prob_dist
        output == AsTuple([b \in 1..Len(values) |-> MatMulRat(attn_dist[b], values[b])])
    IN  [attn_dist |-> attn_dist, output |-> Dropout(output, keep_den, nseed)]

\* ---------------------------------------------------------------- SelfAttn

\* tf.tanh on an integer, rounded to the nearest integer: tanh(0) = 0 and
\* |tanh(x)| > 0.76 for |x| >= 1.
Tanh(x) == Sign(x)

\* tf.expand_dims(mask, 2) on a (batch, n) tensor: (batch, n, 1).
ExpandDimsLast(mask) ==
    Ten([b \in 1..Len(mask) |-> [i \in 1..Len(mask[b]) |-> <<mask[b][i]>>]])

\* tf.transpose(t, [0, 2, 1]).
TransposeLast(t) == Ten([b \in 1..Len(t) |-> Transpose(t[b])])

\* An axis of size 1 is stretched to the size of the other operand.
Stretch(len, i) == IF len = 1 THEN 1 ELSE i

Larger(a, b) == IF a >= b THEN a ELSE b

\* a * b on two matrices, with broadcasting on both axes.
BroadcastMul(a, b) ==
    Mat([i \in 1..Larger(Len(a), Len(b)) |->
        [j \in 1..Larger(Len(a[1]), Len(b[1])) |->
            a[Stretch(Len(a), i)][Stretch(Len(a[1]), j)]
                * b[Stretch(Len(b), i)][Stretch(Len(b[1]), j)]]])

\* The (batch, N, N) mask of SelfAttn: contexts_mask * its transpose.
SelfAttn_E_mask(contexts_mask) ==
    LET m == ExpandDimsLast(contexts_mask)
        mt == TransposeLast(m)
    IN  AsTuple([b \in 1..Len(m) |-> BroadcastMul(m[b], mt[b])])

\* Scores in which the first projection follows the attending position and
\* the second the attended-to position.
SelfAttnESwapped(contexts, W1, W2, v) ==
    LET values_1 == AsTuple([b \in 1..Len(contexts) |-> MatMul(contexts[b], W1)])
        values_2 == AsTuple([b \in 1..Len(contexts) |-> MatMul(contexts[b], W2)])
        additive_value(b, i, j) ==
            [c \in 1..Len(v) |-> Tanh(values_1[b][i][c] + values_2[b][j][c])]
    IN  AsTuple([b \in 1..Len(contexts) |->
            MatMul(Mat([ij \in 1..(Len(contexts[b]) * Len(contexts[b])) |->
                            additive_value(b, ((ij - 1) \div Len(contexts[b])) + 1,
                                              ((ij - 1) % Len(contexts[b])) + 1)]),
                   v)])

\* The (batch, N, N) scores of SelfAttn: v . tanh(values_1 + values_2) with
\* values_1 broadcast over axis 1 and values_2 over axis 2.
SelfAttn_E(contexts, W1, W2, v) ==
    LET values_1 == AsTuple([b \in 1..Len(contexts) |-> MatMul(contexts[b], W1)])
        values_2 == AsTuple([b \in 1..Len(contexts) |-> MatMul(contexts[b], W2)])
        additive_value(b, i, j) ==
            [c \in 1..Len(v) |-> Tanh(values_1[b][j][c] + values_2[b][i][c])]
    IN  AsTuple([b \in 1..Len(contexts) |->
            MatMul(Mat([ij \in 1..(Len(contexts[b]) * Len(contexts[b])) |->
                            additive_value(b, ((ij - 1) \div Len(contexts[b])) + 1,
                                              ((ij - 1) % Len(contexts[b])) + 1)]),
                   v)])

\* tf.reshape(E, (-1, N, N)) of the (batch * N * N, 1) product, one batch
\* element at a time.
ReshapeNN(e, n) ==
    Mat([i \in 1..n |-> [j \in 1..n |-> e[(i - 1) * n + j][1]]])

\* SelfAttn.build_graph(contexts, contexts_mask) with the variables W1, W2, v.
\* E and E_mask are the locals of the method, kept next to what it returns.
SelfAttn_build_graph(contexts, contexts_mask, W1, W2, v, keep_den, nseed) ==
    LET flat == SelfAttn_E(contexts, W1, W2, v)
        E == AsTuple([b \in 1..Len(contexts) |-> ReshapeNN(flat[b], Len(contexts[b]))])
        E_mask == SelfAttn_E_mask(contexts_mask)
        attn_p == masked_softmax_3d(E, E_mask).prob_dist
        output == AsTuple([b \in 1..Len(contexts) |-> MatMulRat(attn_p[b], contexts[b])])
    IN  [attn_p |-> attn_p, output |-> Dropout(output, keep_den, nseed),
         E |-> E, E_mask |-> E_mask]

\* --------------------------------------------------------- BidirectionAttn

\* tf.reshape(t, (BS * N, d)): the rows of every batch element, in order.
FlattenRows(t) ==
    Mat([r \in 1..(Len(t) * Len(t[1])) |->
        t[((r - 1) \div Len(t[1])) + 1][((r - 1) % Len(t[1])) + 1]])

\* tf.reshape(flat, (-1, n, ...)): n consecutive rows per batch element.
Unflatten(flat, n) ==
    Ten([b \in 1..(Len(flat) \div n) |-> [i \in 1..n |-> flat[(b - 1) * n + i]]])

\* tf.expand_dims(w, -1): a column vector.
Column(w) == Mat([k \in 1..Len(w) |-> <<w[k]>>])

\* A similarity whose third term leaves out the question vector.
SimilarityNoQuestion(questions, contexts, w_sim_1, w_sim_2, w_sim_3) ==
    Ten([b \in 1..Len(contexts) |-> [i \in 1..Len(contexts[b]) |->
        [j \in 1..Len(questions[b]) |->
            Sum([k \in 1..Len(w_sim_1) |-> w_sim_1[k] * contexts[b][i][k]])
            + Sum([k \in 1..Len(w_sim_2) |-> w_sim_2[k] * questions[b][j][k]])
            + Sum([k \in 1..Len(w_sim_3) |-> w_sim_3[k] * contexts[b][i][k]])]]])

\* BidirectionAttn.build_similarity_matrix(questions, contexts) with the
\* variables w_sim_1, w_sim_2, w_sim_3.
build_similarity_matrix(questions, contexts, w_sim_1, w_sim_2, w_sim_3) ==
    LET N == Len(contexts[1])
        M == Len(questions[1])
        flat_contexts == FlattenRows(contexts)
        CW == Unflatten(Mat([r \in 1..Len(flat_contexts) |->
                                [k \in 1..Len(w_sim_3) |->
                                    flat_contexts[r][k] * w_sim_3[k]]]), N)
        term1 == Unflatten(MatMul(flat_contexts, Column(w_sim_1)), N)
        term2 == Unflatten(MatMul(FlattenRows(questions), Column(w_sim_2)), M)
        term3 == AsTuple([b \in 1..Len(CW) |-> MatMul(CW[b], Transpose(questions[b]))])
    IN  Ten([b \in 1..Len(term3) |-> [i \in 1..N |-> [j \in 1..M |->
            term1[b][i][1] + term3[b][i][j] + term2[b][j][1]]]])

\* A mask of the similarity matrix built from the questions mask alone.
SMaskQuestionsOnly(questions_mask, contexts_mask) ==
    Ten([b \in 1..Len(contexts_mask) |-> [i \in 1..Len(contexts_mask[b]) |->
        [j \in 1..Len(questions_mask[b]) |-> questions_mask[b][j]]]])

\* A similarity mask that masks the context axis only.
SMaskContextsOnly(questions_mask, contexts_mask) ==
    Ten([b \in 1..Len(contexts_mask) |-> [i \in 1..Len(contexts_mask[b]) |->
        [j \in 1..Len(questions_mask[b]) |-> contexts_mask[b][i]]]])

\* S_mask: tf.matmul of the (batch, N, 1) contexts mask with the (batch, 1, M)
\* transposed questions mask.
BidirectionAttn_S_mask(questions_mask, contexts_mask) ==
    LET qm == ExpandDimsLast(questions_mask)
        cm == ExpandDimsLast(contexts_mask)
        qmt == TransposeLast(qm)
    IN  AsTuple([b \in 1..Len(cm) |-> MatMul(cm[b], qmt[b])])

\* A question-to-context maximum taken over the raw similarity.
RowMaxRaw(S_raw, S) == Mat([b \in 1..Len(S_raw) |-> [i \in 1..Len(S_raw[b]) |-> Max(S_raw[b][i])]])

\* m = tf.reduce_max(S, axis=2), S being the masked similarity.
RowMax(S_raw, S) == Mat([b \in 1..Len(S) |-> [i \in 1..Len(S[b]) |-> Max(S[b][i])]])

\* A fusion with the 4H layout of the docstring: the q2c block is left out.
FuseFourH(c2q_output, q2c_output, contexts) ==
    Ten([b \in 1..Len(contexts) |-> [i \in 1..Len(contexts[b]) |->
        c2q_output[b][i]
        \o [k \in 1..Len(contexts[b][i]) |->
                RatMul(c2q_output[b][i][k], <<contexts[b][i][k], 1>>)]]])

\* tf.concat([c2q_output, c2q_output * contexts, q2c_output * contexts], 2),
\* q2c_output being the (batch, 1, 2H) summary tiled over the N positions.
Fuse(c2q_output, q2c_output, contexts) ==
    LET tiled == Ten([b \in 1..Len(contexts) |->
                        [i \in 1..Len(contexts[b]) |-> q2c_output[b][1]]])
    IN  Ten([b \in 1..Len(contexts) |-> [i \in 1..Len(contexts[b]) |->
            c2q_output[b][i]
            \o [k \in 1..Len(contexts[b][i]) |->
                    RatMul(c2q_output[b][i][k], <<contexts[b][i][k], 1>>)]
            \o [k \in 1..Len(contexts[b][i]) |->
                    RatMul(tiled[b][i][k], <<contexts[b][i][k], 1>>)]]])

\* BidirectionAttn.build_graph(questions, questions_mask, contexts,
\* contexts_mask).  S_raw, S and S_mask are the locals of the method, kept
\* next to what it returns.
BidirectionAttn_build_graph(questions, questions_mask, contexts, contexts_mask, w, keep_den, nseed) ==
    LET S_raw == build_similarity_matrix(questions, contexts, w[1], w[2], w[3])
        S_mask == BidirectionAttn_S_mask(questions_mask, contexts_mask)
        sm == masked_softmax_3d(S_raw, S_mask)
        S == sm.masked_logits
        alpha == sm.prob_dist
        c2q_output == AsTuple([b \in 1..Len(alpha) |-> MatMulRat(alpha[b], questions[b])])
        m == RowMax(S_raw, S)
        beta == AsTuple([b \in 1..Len(m) |-> <<SoftmaxVec(m[b])>>])
        q2c_output == AsTuple([b \in 1..Len(beta) |-> MatMulRat(beta[b], contexts[b])])
        output == Fuse(c2q_output, q2c_output, contexts)
    IN  [alpha |-> alpha,
         beta |-> AsTuple([b \in 1..Len(beta) |-> beta[b][1]]),
         output |-> Dropout(output, keep_den, nseed),
         S_raw |-> S_raw, S |-> S, S_mask |-> S_mask]

\* ---------------------------------------------------- SelfAttn's variables

\* The full name of a variable: the caller's scope, the scope the layer
\* opens, the name given to tf.get_variable.
FullName(outer, scope, name) == <<outer, scope, name>>

\* tf.get_variable(name) in a scope whose reuse is None, True or
\* tf.AUTO_REUSE, on the store's set of names: without reuse an existing
\* variable is an error, with reuse a missing one is, AUTO_REUSE creates the
\* variable or returns the one that exists.
GetVariable(names, full, reuse) ==
    CASE reuse = "None" ->
            IF full \in names
            THEN [error |-> "already exists", names |-> names]
            ELSE [error |-> "none", names |-> names \cup {full}]
      [] reuse = "True" ->
            IF full \in names
            THEN [error |-> "none", names |-> names]
            ELSE [error |-> "does not exist", names |-> names]
      [] reuse = "AUTO_REUSE" ->
            [error |-> "none", names |-> names \cup {full}]

\* The head of SelfAttn.build_graph: under variable_scope("SelfAttn"), which
\* inherits the caller's scope and reuse, W1, then W2, then v; the first
\* tf.get_variable that fails ends the call.
SelfAttn_get_variables(names, outer, reuse) ==
    LET W1 == FullName(outer, "SelfAttn", "W1")
        W2 == FullName(outer, "SelfAttn", "W2")
        v == FullName(outer, "SelfAttn", "v")
        r1 == GetVariable(names, W1, reuse)
        r2 == GetVariable(r1.names, W2, reuse)
        r3 == GetVariable(r2.names, v, reuse)
        failed == IF r1.error # "none" THEN r1
                  ELSE IF r2.error # "none" THEN r2 ELSE r3
    IN  [error |-> failed.error, names |-> failed.names,
         weights_1 |-> W1, weights_2 |-> W2, v |-> v]

\* ------------------------------------------------------ SimpleSoftmaxLayer

\* tf.contrib.layers.fully_connected(inputs, num_outputs=1,
\* activation_fn=None): inputs x weights + bias, shape (batch, seq_len, 1).
FullyConnected(inputs, weights, bias) ==
    Ten([b \in 1..Len(inputs) |-> [t \in 1..Len(inputs[b]) |->
        <<Sum([k \in 1..Len(weights) |-> inputs[b][t][k] * weights[k]]) + bias>>]])

\* tf.squeeze(logits, axis=[2]).
Squeeze(t) == Mat([b \in 1..Len(t) |-> [i \in 1..Len(t[b]) |-> t[b][i][1]]])

\* A layer that returns the projection it computed in place of the masked
\* logits.
SimpleSoftmaxReturnsRaw(inputs, masks, weights, bias) ==
    LET logits == Squeeze(FullyConnected(inputs, weights, bias))
        r == masked_softmax(logits, masks, 1)
    IN  [logits |-> logits, prob_dist |-> r.prob_dist]

\* SimpleSoftmaxLayer.build_graph(inputs, masks) with the weights and the
\* bias of its projection: the pair (masked_logits, prob_dist).
SimpleSoftmaxLayer_build_graph(inputs, masks, weights, bias) ==
    LET logits == Squeeze(FullyConnected(inputs, weights, bias))
        r == masked_softmax(logits, masks, 1)
    IN  [logits |-> r.masked_logits, prob_dist |-> r.prob_dist]

\* ------------------------------------------------------------------- main

\* What tf.train.get_checkpoint_state and tf.gfile.Exists find in a
\* directory: whether a checkpoint record exists, and whether the file it
\* names and that file's ".index" exist.
Checkpoints ==
    {[record |-> FALSE, file |-> FALSE, index |-> FALSE]}
    \cup [record : {TRUE}, file : BOOLEAN, index : BOOLEAN]

NoCheckpointError == "There is no saved checkpoint"

\* A variant that creates fresh parameters whenever no checkpoint is found.
InitializeModelAlwaysFresh(session, ckpt, expect_exists) ==
    IF ckpt.record /\ (ckpt.file \/ ckpt.index)
    THEN [error |-> "none", sess |-> [session EXCEPT !.restored = @ + 1]]
    ELSE [error |-> "none", sess |-> [session EXCEPT !.initialized = @ + 1]]

\* initialize_model(session, model, train_dir, expect_exists), ckpt being
\* what train_dir holds.
initialize_model(session, ckpt, expect_exists) ==
    IF ckpt.record /\ (ckpt.file \/ ckpt.index)
    THEN [error |-> "none", sess |-> [session EXCEPT !.restored = @ + 1]]
    ELSE IF expect_exists
         THEN [error |-> NoCheckpointError, sess |-> session]
         ELSE [error |-> "none", sess |-> [session EXCEPT !.initialized = @ + 1]]

\* The modes the help text of --mode lists.
DocumentedModes == {"train", "show_examples", "official_eval", "getinfo"}

\* The modes main has a branch for.
HandledModes ==
    {"train", "test", "show_examples", "visualize", "ensemble_write",
     "ensemble_predict", "official_eval"}

UnexpectedModeError == "Unexpected value of FLAGS.mode"

\* A branch of main that loads a model and then runs its handler.
LoadThenRun(mode, session, ckpt, expect_exists) ==
    LET r == initialize_model(session, ckpt, expect_exists)
    IN  [error |-> r.error, sess |-> r.sess,
         handler |-> IF r.error = "none" THEN mode ELSE "none"]

\* A branch of main that fails before it loads anything.
Fail(message, session) == [error |-> message, sess |-> session, handler |-> "none"]

\* main(unused_argv) on the flags and on the checkpoints that train_dir,
\* its best_checkpoint directory and ckpt_load_dir hold; the handler is the
\* branch whose work main reached.
main(argc, flags, ckpts, session) ==
    IF argc # 1 THEN Fail("There is a problem with how you entered flags", session)
    ELSE IF /\ ~flags.experiment_name /\ ~flags.train_dir
            /\ flags.mode \notin {"official_eval", "ensemble_write", "ensemble_predict"}
    THEN Fail("You need to specify either --experiment_name or --train_dir", session)
    ELSE CASE flags.mode \in {"train", "test"} ->
                LoadThenRun(flags.mode, session, ckpts.train_dir, FALSE)
           [] flags.mode \in {"show_examples", "visualize"} ->
                LoadThenRun(flags.mode, session, ckpts.bestmodel_dir, TRUE)
           [] flags.mode = "ensemble_write" ->
                IF ~flags.json_in_path
                THEN Fail("For ensembling mode, you need to specify --json_in_path", session)
                ELSE IF ~flags.ckpt_load_dir
                THEN Fail("For ensembling mode, you need to specify --ckpt_load_dir", session)
                ELSE IF ~flags.ensemble_name
                THEN Fail("For ensembling mode, you need to specify --ensemble_name", session)
                ELSE LoadThenRun(flags.mode, session, ckpts.ckpt_load_dir, TRUE)
           [] flags.mode = "ensemble_predict" ->
                IF ~flags.json_in_path
                THEN Fail("For ensembling mode, you need to specify --json_in_path", session)
                ELSE [error |-> "none", sess |-> session, handler |-> flags.mode]
           [] flags.mode = "official_eval" ->
                IF ~flags.json_in_path
                THEN Fail("For official_eval mode, you need to specify --json_in_path", session)
                ELSE IF ~flags.ckpt_load_dir
                THEN Fail("For official_eval mode, you need to specify --ckpt_load_dir", session)
                ELSE LoadThenRun(flags.mode, session, ckpts.ckpt_load_dir, TRUE)
           [] OTHER -> Fail(UnexpectedModeError, session)

\* -------------------------------------------------------------- RNNEncoder

SupportedModes == {"GRU", "LSTM"}

\* DropoutWrapper(GRUCell(hidden_size) or BasicLSTMCell(hidden_size),
\* input_keep_prob=keep_prob); id tells the cells, and so their weights, apart.
NewCell(mode, hidden_size, keep_den, id) ==
    [kind |-> mode, units |-> hidden_size, input_keep_den |-> keep_den, id |-> id]

\* A constructor whose loop appends a cell for the first layer only.
CellsFirstLayerOnly(mode, hidden_size, keep_den, num_layers, dir) ==
    IF mode \in SupportedModes
    THEN <<NewCell(mode, hidden_size, keep_den, 2 + dir)>>
    ELSE <<>>

\* The list one direction's cells form after the loop of __init__: one cell
\* per layer for 'GRU' and 'LSTM', none for any other mode.
Cells(mode, hidden_size, keep_den, num_layers, dir) ==
    IF mode \in SupportedModes
    THEN [l \in 1..num_layers |-> NewCell(mode, hidden_size, keep_den, 2 * l + dir)]
    ELSE <<>>

\* RNNEncoder.__init__(hidden_size, keep_prob, num_layers, mode).
RNNEncoder_init(hidden_size, keep_den, num_layers, mode) ==
    [constructed |-> TRUE,
     hidden_size |-> hidden_size,
     keep_den |-> keep_den,
     num_layers |-> num_layers,
     mode |-> mode,
     rnn_cells_fw |-> Cells(mode, hidden_size, keep_den, num_layers, 0),
     rnn_cells_bw |-> Cells(mode, hidden_size, keep_den, num_layers, 1)]

\* tf.nn.dropout on an integer entry, keep_prob = 1/keep_den.
DropoutInt(x, keep_den, keep) == IF keep_den = 1 THEN x ELSE x * keep_den * keep

\* The zero state of a cell: h for a GRU, (c, h) for an LSTM.
ZeroVector(n) == AsTuple([u \in 1..n |-> 0])

ZeroState(cell) == [c |-> ZeroVector(cell.units), h |-> ZeroVector(cell.units)]

\* One step of a recurrent cell on input vector x from state st.  The cell's
\* arithmetic stands for the gates of the library cell: the new state is a
\* function of the cell's weights, of x and of the previous state; an LSTM
\* carries c next to h.
CellStep(cell, x, st) ==
    IF cell.kind = "GRU"
    THEN LET h == AsTuple([u \in 1..cell.units |->
                      (Sum(x) + 2 * st.h[u] + u + cell.id) % CellMod])
         IN  [c |-> st.c, h |-> h]
    ELSE LET c == AsTuple([u \in 1..cell.units |->
                      (st.c[u] + Sum(x) + st.h[u] + u + cell.id) % CellMod])
         IN  [c |-> c,
              h |-> AsTuple([u \in 1..cell.units |-> (2 * c[u] + 1) % CellMod])]

\* The DropoutWrapper's call: dropout on the input, then the cell.
WrappedStep(cell, x, st, nseed, b, t) ==
    CellStep(cell,
             AsTuple([k \in 1..Len(x) |->
                 DropoutInt(x[k], cell.input_keep_den, NoiseBit(nseed, b, t, k + cell.id))]),
             st)

\* The loop of tf.nn.dynamic_rnn from step t on, st being the state and acc
\* the outputs so far: up to len the cell runs and its hidden state is the
\* output, past len the output is zeros and the state stays.
RECURSIVE RnnLoop(_, _, _, _, _, _, _, _)
RnnLoop(cell, xs, len, t, st, acc, nseed, b) ==
    IF t > Len(xs) THEN acc
    ELSE IF t <= len
    THEN LET next == WrappedStep(cell, xs[t], st, nseed, b, t)
         IN  RnnLoop(cell, xs, len, t + 1, next, Append(acc, next.h), nseed, b)
    ELSE RnnLoop(cell, xs, len, t + 1, st, Append(acc, ZeroVector(cell.units)), nseed, b)

\* tf.nn.dynamic_rnn(cell, xs, sequence_length=len), its outputs.
DynamicRnn(cell, xs, len, nseed, b) ==
    RnnLoop(cell, xs, len, 1, ZeroState(cell), <<>>, nseed, b)

\* A reversal of the whole padded sequence, whatever its length.
ReverseAll(xs, len) == AsTuple([t \in 1..Len(xs) |-> xs[Len(xs) + 1 - t]])

\* array_ops.reverse_sequence(xs, seq_lengths=len): the first len steps are
\* reversed, the rest stay.
ReverseSequence(xs, len) ==
    AsTuple([t \in 1..Len(xs) |-> IF t <= len THEN xs[len + 1 - t] ELSE xs[t]])

\* tf.nn.bidirectional_dynamic_rnn on one sequence, the forward and backward
\* outputs concatenated along the features.
BidirectionalRnn(cell_fw, cell_bw, xs, len, nseed, b) ==
    LET fw_out == DynamicRnn(cell_fw, xs, len, nseed, b)
        bw_out == ReverseSequence(
                      DynamicRnn(cell_bw, ReverseSequence(xs, len), len, nseed, b), len)
    IN  AsTuple([t \in 1..Len(xs) |-> fw_out[t] \o bw_out[t]])

\* tf.contrib.rnn.stack_bidirectional_dynamic_rnn: layer l reads the
\* concatenated output of layer l - 1.
RECURSIVE StackBidirectionalRnn(_, _, _, _, _, _, _)
StackBidirectionalRnn(cells_fw, cells_bw, l, xs, len, nseed, b) ==
    IF l = 0 THEN xs
    ELSE BidirectionalRnn(cells_fw[l], cells_bw[l],
             StackBidirectionalRnn(cells_fw, cells_bw, l - 1, xs, len, nseed, b),
             len, nseed, b)

\* input_lens = tf.reduce_sum(masks, reduction_indices=1).
InputLens(masks) == [b \in 1..Len(masks) |-> Sum(masks[b])]

\* RNNEncoder.build_graph(inputs, masks) on an encoder that has its cells.
\* input_lens is the method's local, kept next to what it returns.
RNNEncoder_build_graph(e, inputs, masks, nseed) ==
    LET input_lens == InputLens(masks)
        out == AsTuple([b \in 1..Len(inputs) |->
                   IF e.num_layers = 1
                   THEN BidirectionalRnn(e.rnn_cells_fw[1], e.rnn_cells_bw[1],
                                         inputs[b], input_lens[b], nseed, b)
                   ELSE StackBidirectionalRnn(e.rnn_cells_fw, e.rnn_cells_bw,
                                              Len(e.rnn_cells_fw), inputs[b],
                                              input_lens[b], nseed, b)])
    IN  [out |-> AsTuple([b \in 1..Len(out) |-> AsTuple([t \in 1..Len(out[b]) |->
                     AsTuple([k \in 1..Len(out[b][t]) |->
                         DropoutInt(out[b][t][k], e.keep_den,
                                    NoiseBit(nseed + 1, b, t, k))])])]),
         input_lens |-> input_lens]

\* ------------------------------------------------------------------ inputs

Lens == 1..MaxLen

Seeds == 0..MaxSeed

\* A family of input tensors with entries in -1..1, one tensor per seed.
Gen(seed, i, j, k) ==
    ((((seed + 1) * (i + 2 * j + 3 * k) + 2 * seed * seed + 3 * seed) % 7) % 3) - 1

GenVector(seed, n) == Vec([k \in 1..n |-> Gen(seed, k, 0, 0)])

GenMatrix(seed, r, c) == Mat([i \in 1..r |-> [j \in 1..c |-> Gen(seed, i, j, 0)]])

GenTensor(seed, n, r, c) ==
    Ten([b \in 1..n |-> [i \in 1..r |-> [j \in 1..c |-> Gen(seed, i, j, b)]]])

Batches == 1..MaxBatch

Sizes == 1..MaxHidden

\* keep_prob is 1 or 1/2; the dropout bits matter for 1/2 only.
DropoutChoices == {<<1, 0>>, <<2, 0>>, <<2, 1>>}

\* Every binary mask of shape (r, c).
Masks(r, c) == [1..r -> [1..c -> {0, 1}]]

\* ------------------------------------------------------------ state machine

NoEncoder == [constructed |-> FALSE]

\* The variable store of a new graph: no variable exists, no layer is built.
EmptyStore == [names |-> {}, layers |-> <<>>]

\* A tf.Session that has run nothing yet.
NewSession == [restored |-> 0, initialized |-> 0]

Idle ==
    /\ pc = "idle"
    /\ fn = "none"
    /\ args = <<>>
    /\ ret = <<>>
    /\ enc = NoEncoder
    /\ store = EmptyStore
    /\ sess = NewSession

\* One call of masked_softmax on a (r, c) matrix, along dim.
CallMaskedSoftmax ==
    /\ pc = "idle"
    /\ \E r \in Lens, c \in Lens, seed \in Seeds, dim \in {0, 1} :
         \E mask \in Masks(r, c) :
            LET logits == GenMatrix(seed, r, c) IN
            /\ args' = [logits |-> logits, mask |-> mask, dim |-> dim]
            /\ ret' = masked_softmax(logits, mask, dim)
    /\ fn' = "masked_softmax"
    /\ pc' = "returned"
    /\ UNCHANGED <<enc, store, sess>>

\* The masks of a batch in which every sequence has at least one real token.
NonEmptyMasks(r, c) ==
    {m \in Masks(r, c) : \A b \in 1..r : \E j \in 1..c : m[b][j] = 1}

\* The padding masks of a batch: in every sequence the real tokens come
\* first; a sequence may be all padding.
PaddingMasks(r, c) ==
    {m \in Masks(r, c) : \A b \in 1..r : \A j \in 1..(c - 1) : m[b][j] >= m[b][j + 1]}

Layers == 1..MaxLayers

SeqLens == 1..MaxSeqLen

\* The cell families a caller may name: the two supported ones and one other.
Modes == {"GRU", "LSTM", "RNN"}

\* RNNEncoder(hidden_size, keep_prob, num_layers, mode): the constructor
\* returns for every mode.
ConstructRNNEncoder ==
    /\ pc = "idle"
    /\ \E h \in Sizes, keep_den \in {1, 2}, num_layers \in Layers, mode \in Modes :
        /\ args' = [hidden_size |-> h, keep_den |-> keep_den,
                    num_layers |-> num_layers, mode |-> mode]
        /\ enc' = RNNEncoder_init(h, keep_den, num_layers, mode)
    /\ fn' = "RNNEncoder.__init__"
    /\ ret' = <<>>
    /\ pc' = "constructed"
    /\ UNCHANGED <<store, sess>>

\* encoder.build_graph(inputs, masks).  Without cells rnn_cells_fw[0] raises
\* an IndexError and stack_bidirectional_dynamic_rnn a ValueError.
CallEncoderBuildGraph ==
    /\ pc = "constructed"
    /\ \E n \in Batches, len \in SeqLens, d \in {MaxHidden}, seed \in Seeds, nseed \in {0, 1} :
       \E masks \in PaddingMasks(n, len) :
            LET inputs == GenTensor(seed, n, len, d) IN
            /\ args' = [inputs |-> inputs, masks |-> masks, nseed |-> nseed]
            /\ IF enc.rnn_cells_fw = <<>>
               THEN /\ pc' = "raised"
                    /\ ret' = [error |-> IF enc.num_layers = 1 THEN "IndexError"
                                                               ELSE "ValueError"]
               ELSE /\ pc' = "returned"
                    /\ ret' = RNNEncoder_build_graph(enc, inputs, masks, nseed)
    /\ fn' = "RNNEncoder.build_graph"
    /\ UNCHANGED <<enc, store, sess>>

\* One forward pass of BasicAttn.
CallBasicAttn ==
    /\ pc = "idle"
    /\ \E n \in Batches, nv \in Lens, nk \in Lens, d \in {MaxHidden} :
       \E vseed \in Seeds, kseed \in Seeds, dr \in DropoutChoices :
       \E values_mask \in Masks(n, nv) :
            LET values == GenTensor(vseed, n, nv, d)
                keys == GenTensor(kseed, n, nk, d)
            IN
            /\ args' = [values |-> values, values_mask |-> values_mask,
                        keys |-> keys, keep_den |-> dr[1], nseed |-> dr[2]]
            /\ ret' = BasicAttn_build_graph(values, values_mask, keys, dr[1], dr[2])
    /\ fn' = "BasicAttn.build_graph"
    /\ pc' = "returned"
    /\ UNCHANGED <<enc, store, sess>>

\* One forward pass of SelfAttn, with hidden size h and attention size c.
CallSelfAttn ==
    /\ pc = "idle"
    /\ \E n \in Batches, len \in Lens, h \in {MaxHidden}, c \in {MaxHidden} :
       \E cseed \in Seeds, wseed \in Seeds, dr \in DropoutChoices :
       \E contexts_mask \in NonEmptyMasks(n, len) :
            LET contexts == GenTensor(cseed, n, len, h)
                W1 == GenMatrix(wseed, h, c)
                W2 == GenMatrix(wseed + 1, h, c)
                v == GenMatrix(wseed + 2, c, 1)
            IN
            /\ args' = [contexts |-> contexts, contexts_mask |-> contexts_mask,
                        W1 |-> W1, W2 |-> W2, v |-> v, keep_den |-> dr[1],
                        nseed |-> dr[2]]
            /\ ret' = SelfAttn_build_graph(contexts, contexts_mask, W1, W2, v,
                                           dr[1], dr[2])
    /\ fn' = "SelfAttn.build_graph"
    /\ pc' = "returned"
    /\ UNCHANGED <<enc, store, sess>>

\* The learned vectors w_sim_1, w_sim_2, w_sim_3 of width 2H.
SimWeights(wseed, h) ==
    <<GenVector(wseed, 2 * h), GenVector(wseed + 1, 2 * h), GenVector(wseed + 2, 2 * h)>>

\* One call of BidirectionAttn.build_similarity_matrix.
CallBuildSimilarityMatrix ==
    /\ pc = "idle"
    /\ \E n \in Batches, N \in Lens, M \in Lens, h \in Sizes :
       \E seed \in Seeds, wseed \in Seeds :
            LET questions == GenTensor(seed + 1, n, M, 2 * h)
                contexts == GenTensor(seed, n, N, 2 * h)
                w == SimWeights(wseed, h)
            IN
            /\ args' = [questions |-> questions, contexts |-> contexts, w |-> w,
                        hidden_size |-> h]
            /\ ret' = [S |-> build_similarity_matrix(questions, contexts,
                                                     w[1], w[2], w[3])]
    /\ fn' = "BidirectionAttn.build_similarity_matrix"
    /\ pc' = "returned"
    /\ UNCHANGED <<enc, store, sess>>

\* One forward pass of BidirectionAttn.
CallBidirectionAttn ==
    /\ pc = "idle"
    /\ \E n \in Batches, N \in Lens, M \in Lens, h \in {MaxHidden} :
       \E seed \in Seeds, keep_den \in {1, 2} :
       \E contexts_mask \in PaddingMasks(n, N), questions_mask \in PaddingMasks(n, M) :
            LET questions == GenTensor(seed + 1, n, M, 2 * h)
                contexts == GenTensor(seed, n, N, 2 * h)
                w == SimWeights(seed + 2, h)
            IN
            /\ args' = [questions |-> questions, questions_mask |-> questions_mask,
                        contexts |-> contexts, contexts_mask |-> contexts_mask,
                        w |-> w, hidden_size |-> h, keep_den |-> keep_den,
                        nseed |-> seed % 2]
            /\ ret' = BidirectionAttn_build_graph(questions, questions_mask,
                            contexts, contexts_mask, w, keep_den, seed % 2)
    /\ fn' = "BidirectionAttn.build_graph"
    /\ pc' = "returned"
    /\ UNCHANGED <<enc, store, sess>>

\* The values the bias of the projection may have.
Biases == {-1, 0, 1}

\* One forward pass of SimpleSoftmaxLayer.
CallSimpleSoftmaxLayer ==
    /\ pc = "idle"
    /\ \E n \in Batches, len \in Lens, h \in {MaxHidden} :
       \E seed \in Seeds, wseed \in Seeds, bias \in Biases :
       \E masks \in Masks(n, len) :
            LET inputs == GenTensor(seed, n, len, h)
                weights == GenVector(wseed, h)
            IN
            /\ args' = [inputs |-> inputs, masks |-> masks,
                        weights |-> weights, bias |-> bias]
            /\ ret' = SimpleSoftmaxLayer_build_graph(inputs, masks, weights, bias)
    /\ fn' = "SimpleSoftmaxLayer.build_graph"
    /\ pc' = "returned"
    /\ UNCHANGED <<enc, store, sess>>

\* The scopes a caller may build a SelfAttn layer in, and their reuse.
OuterScopes == {"", "layer1", "layer2"}

ReuseModes == {"None", "True", "AUTO_REUSE"}

\* The head of one SelfAttn.build_graph call, on a new instance or on one
\* that was built before: the layer obtains its three variables, or the
\* call raises ValueError.
SelfAttnGetVariables ==
    /\ pc \in {"idle", "built"}
    /\ Len(store.layers) < MaxBuilds
    /\ \E outer \in OuterScopes, reuse \in ReuseModes :
        LET r == SelfAttn_get_variables(store.names, outer, reuse) IN
        /\ args' = [outer |-> outer, reuse |-> reuse]
        /\ IF r.error = "none"
           THEN /\ pc' = "built"
                /\ ret' = [weights_1 |-> r.weights_1, weights_2 |-> r.weights_2,
                            v |-> r.v]
                /\ store' = [names |-> r.names,
                             layers |-> Append(store.layers,
                                 [weights_1 |-> r.weights_1,
                                  weights_2 |-> r.weights_2, v |-> r.v])]
           ELSE /\ pc' = "raised"
                /\ ret' = [error |-> r.error]
                /\ store' = [store EXCEPT !.names = r.names]
    /\ fn' = "SelfAttn.get_variables"
    /\ UNCHANGED <<enc, sess>>

\* The values --mode may be given: the handled ones, the documented ones
\* and one that is neither.
FlagModes == HandledModes \cup DocumentedModes \cup {"eval"}

\* The flags main reads; a string flag is TRUE when it is not empty.
Flags ==
    [mode : FlagModes, experiment_name : BOOLEAN, train_dir : BOOLEAN,
     json_in_path : BOOLEAN, ckpt_load_dir : BOOLEAN, ensemble_name : BOOLEAN]

\* One direct call of initialize_model on a new session.
CallInitializeModel ==
    /\ pc = "idle"
    /\ \E ckpt \in Checkpoints, expect_exists \in BOOLEAN :
        LET r == initialize_model(sess, ckpt, expect_exists) IN
        /\ args' = [ckpt |-> ckpt, expect_exists |-> expect_exists]
        /\ ret' = [error |-> r.error]
        /\ sess' = r.sess
        /\ pc' = IF r.error = "none" THEN "returned" ELSE "raised"
    /\ fn' = "initialize_model"
    /\ UNCHANGED <<enc, store>>

\* One run of main.
CallMain ==
    /\ pc = "idle"
    /\ \E argc \in {1, 2}, flags \in Flags :
       \E ct \in Checkpoints, cb \in Checkpoints, cl \in Checkpoints :
        LET ckpts == [train_dir |-> ct, bestmodel_dir |-> cb, ckpt_load_dir |-> cl]
            r == main(argc, flags, ckpts, sess)
        IN
        /\ args' = [argc |-> argc, flags |-> flags, ckpts |-> ckpts]
        /\ ret' = [error |-> r.error, handler |-> r.handler]
        /\ sess' = r.sess
        /\ pc' = IF r.error = "none" THEN "returned" ELSE "raised"
    /\ fn' = "main"
    /\ UNCHANGED <<enc, store>>

SpecSoftmax == Idle /\ [][CallMaskedSoftmax]_vars

SpecEncoder == Idle /\ [][ConstructRNNEncoder \/ CallEncoderBuildGraph]_vars

\* ------------------------------------------------- claims on masked_softmax

\* The lines of a matrix along dim: its rows (dim = 1) or its columns (dim = 0).
Lines(t, dim) == IF dim = 1 THEN t ELSE Transpose(t)

HasValid(maskline) == \E j \in 1..Len(maskline) : maskline[j] = 1

\* A line of probabilities that sums to 1 and is 0 wherever the mask is 0.
IsMaskedDist(p, maskline) ==
    /\ RatSum(p) = One
    /\ \A j \in 1..Len(p) : maskline[j] = 0 => p[j] = Zero

\* C1: every line of prob_dist along dim whose mask has at least one 1 sums
\* to 1 and is 0 at every entry whose mask is 0.
C1_MaskedSoftmaxDistribution ==
    (pc = "returned" /\ fn = "masked_softmax") =>
        LET p == Lines(ret.prob_dist, args.dim)
            m == Lines(args.mask, args.dim)
        IN  \A l \in 1..Len(p) : HasValid(m[l]) => IsMaskedDist(p[l], m[l])

\* A call along dim 0 on a matrix with a column that mixes mask 0 and mask 1.
C1_Witness ==
    /\ pc = "returned" /\ fn = "masked_softmax"
    /\ args.dim = 0
    /\ Len(args.mask) = 2
    /\ args.mask[1][1] = 1 /\ args.mask[2][1] = 0
    /\ ret.prob_dist[2][1] = Zero /\ ret.prob_dist[1][1] = One

\* C2: masked_logits has the shape of logits, equals the logit where the mask
\* is 1 and the logit plus -1e30 (a float32 addition) where the mask is 0.
C2_MaskedLogits ==
    (pc = "returned" /\ fn = "masked_softmax") =>
        /\ Len(ret.masked_logits) = Len(args.logits)
        /\ \A i \in 1..Len(args.logits) :
            /\ Len(ret.masked_logits[i]) = Len(args.logits[i])
            /\ \A j \in 1..Len(args.logits[i]) :
                ret.masked_logits[i][j] =
                    IF args.mask[i][j] = 1 THEN args.logits[i][j]
                    ELSE FloatAdd(args.logits[i][j], NEG_LARGE)

\* A call whose mask has a 0 next to a 1, on a non-zero logit that is shifted.
C2_Witness ==
    /\ pc = "returned" /\ fn = "masked_softmax"
    /\ \E i \in 1..Len(args.mask) : \E j, k \in 1..Len(args.mask[i]) :
        /\ args.mask[i][j] = 0 /\ args.mask[i][k] = 1
        /\ args.logits[i][j] # 0 /\ args.logits[i][k] # 0
        /\ ret.masked_logits[i][j] <= NEG_LARGE
        /\ ret.masked_logits[i][k] = args.logits[i][k]

SpecBasicAttn == Idle /\ [][CallBasicAttn]_vars

\* ------------------------------------------------------ claims on BasicAttn

\* C3: for every batch element whose values_mask has a 1 and for every key,
\* the row of attn_dist over the values sums to 1 and is 0 wherever
\* values_mask is 0: the one mask row of the batch element serves every key.
C3_BasicAttnDistribution ==
    (pc = "returned" /\ fn = "BasicAttn.build_graph") =>
        \A b \in 1..Len(args.values) :
            HasValid(args.values_mask[b]) =>
                /\ Len(ret.attn_dist[b]) = Len(args.keys[b])
                /\ \A k \in 1..Len(args.keys[b]) :
                    IsMaskedDist(ret.attn_dist[b][k], args.values_mask[b])

\* Two keys attend to two values of which the second is padding.
C3_Witness ==
    /\ pc = "returned" /\ fn = "BasicAttn.build_graph"
    /\ Len(args.keys[1]) = 2
    /\ args.values_mask[1] = <<1, 0>>
    /\ args.keys[1][1] # args.keys[1][2]
    /\ ret.attn_dist[1] = <<(<<One, Zero>>), (<<One, Zero>>)>>

SpecSelfAttn == Idle /\ [][CallSelfAttn]_vars

\* ------------------------------------------------------- claims on SelfAttn

\* C4: E_mask[b,i,j] = contexts_mask[b,i] * contexts_mask[b,j], and attn_p is
\* 0 in the whole row p and in the whole column p of every position p whose
\* contexts_mask is 0.
C4_SelfAttnPaddingZero ==
    (pc = "returned" /\ fn = "SelfAttn.build_graph") =>
        \A b \in 1..Len(args.contexts) :
            LET N == Len(args.contexts[b])
                m == args.contexts_mask[b]
            IN  /\ \A i, j \in 1..N : ret.E_mask[b][i][j] = m[i] * m[j]
                /\ \A p \in 1..N : m[p] = 0 =>
                    /\ \A j \in 1..N : ret.attn_p[b][p][j] = Zero
                    /\ \A i \in 1..N : ret.attn_p[b][i][p] = Zero

SpecBidirectionAttn ==
    Idle /\ [][CallBuildSimilarityMatrix \/ CallBidirectionAttn]_vars

\* ------------------------------------------------ claims on BidirectionAttn

BidafReturned == pc = "returned" /\ fn = "BidirectionAttn.build_graph"

\* The entries of a row at the positions whose mask is 1.
ValidEntries(row, maskline) ==
    [j \in 1..Len(row) |-> IF maskline[j] = 1 THEN row[j] ELSE Zero]

\* C5: alpha has shape (batch, N, M); for every context position i whose
\* contexts_mask is 1, when the question has a valid position, alpha[b,i,:]
\* sums to 1 over the question positions whose mask is 1 and is 0 at the
\* question positions whose mask is 0.
C5_AlphaDistribution ==
    BidafReturned =>
        /\ Len(ret.alpha) = Len(args.contexts)
        /\ \A b \in 1..Len(args.contexts) :
            /\ Len(ret.alpha[b]) = Len(args.contexts[b])
            /\ \A i \in 1..Len(args.contexts[b]) :
                /\ Len(ret.alpha[b][i]) = Len(args.questions[b])
                /\ (args.contexts_mask[b][i] = 1 /\ HasValid(args.questions_mask[b])) =>
                    /\ RatSum(ValidEntries(ret.alpha[b][i], args.questions_mask[b])) = One
                    /\ \A j \in 1..Len(args.questions[b]) :
                        args.questions_mask[b][j] = 0 => ret.alpha[b][i][j] = Zero

\* A valid context position next to a padded one, a question of one real
\* token and one padding token.
C5_Witness ==
    /\ BidafReturned
    /\ args.contexts_mask[1] = <<1, 0>>
    /\ args.questions_mask[1] = <<1, 0>>
    /\ ret.alpha[1][1] = <<One, Zero>>

\* The masked similarity as the claim describes it: the raw score where both
\* masks are 1, the raw score shifted by -1e30 elsewhere.
MaskedSimilarity(b, i, j) ==
    IF args.contexts_mask[b][i] = 1 /\ args.questions_mask[b][j] = 1
    THEN ret.S_raw[b][i][j]
    ELSE FloatAdd(ret.S_raw[b][i][j], NEG_LARGE)

\* C6: beta has shape (batch, N), is the unmasked softmax over the N context
\* positions of the maximum over the question axis of the masked similarity,
\* and sums to 1 over N.
C6_BetaFromMaskedMax ==
    BidafReturned =>
        /\ Len(ret.beta) = Len(args.contexts)
        /\ \A b \in 1..Len(args.contexts) :
            LET N == Len(args.contexts[b])
                M == Len(args.questions[b])
                m == [i \in 1..N |-> Max([j \in 1..M |-> MaskedSimilarity(b, i, j)])]
            IN  /\ Len(ret.beta[b]) = N
                /\ ret.beta[b] = SoftmaxVec(m)
                /\ RatSum(ret.beta[b]) = One

\* A pass in which beta is not the softmax of the maximum of the raw
\* similarity: masking changed it.
C6_Witness ==
    /\ BidafReturned
    /\ Len(args.contexts[1]) = 2
    /\ args.contexts_mask[1] = <<1, 0>>
    /\ args.questions_mask[1] = <<1, 1>>
    /\ ret.beta[1] = <<One, Zero>>
    /\ ret.beta[1] # SoftmaxVec([i \in 1..2 |-> Max(ret.S_raw[1][i])])

SimilarityReturned ==
    pc = "returned" /\ fn = "BidirectionAttn.build_similarity_matrix"

\* The dot product of two integer vectors.
Dot(x, y) == Sum([k \in 1..Len(x) |-> x[k] * y[k]])

\* C8: S has shape (batch, N, M) and S[b,i,j] = w_sim_1 . c_i + w_sim_2 . q_j
\* + (w_sim_3 * c_i) . q_j for every context and question position.
C8_SimilarityMatrix ==
    SimilarityReturned =>
        /\ Len(ret.S) = Len(args.contexts)
        /\ \A b \in 1..Len(args.contexts) :
            /\ Len(ret.S[b]) = Len(args.contexts[b])
            /\ \A i \in 1..Len(args.contexts[b]) :
                /\ Len(ret.S[b][i]) = Len(args.questions[b])
                /\ \A j \in 1..Len(args.questions[b]) :
                    LET c == args.contexts[b][i]
                        q == args.questions[b][j]
                    IN  ret.S[b][i][j] =
                            Dot(args.w[1], c) + Dot(args.w[2], q)
                            + Dot([k \in 1..Len(c) |-> args.w[3][k] * c[k]], q)

\* A similarity matrix with more context than question positions in which
\* the three terms are all non-zero somewhere.
C8_Witness ==
    /\ SimilarityReturned
    /\ Len(args.contexts[1]) = 2 /\ Len(args.questions[1]) = 1
    /\ \E i \in 1..2 :
        LET c == args.contexts[1][i]
            q == args.questions[1][1]
        IN  /\ Dot(args.w[1], c) # 0
            /\ Dot(args.w[2], q) # 0
            /\ Dot([k \in 1..Len(c) |-> args.w[3][k] * c[k]], q) # 0

\* ----------------------------------------------------- claims on RNNEncoder

\* C9: constructing an RNNEncoder with a mode other than 'GRU' or 'LSTM'
\* raises at construction and yields no encoder object.
C9_UnsupportedModeRaises ==
    (fn = "RNNEncoder.__init__" /\ args.mode \notin SupportedModes) =>
        (pc = "raised" /\ ~enc.constructed)

EncoderReturned == pc = "returned" /\ fn = "RNNEncoder.build_graph"

\* The batch that equals inputs where the mask is 1 and the tensor of seed2
\* where the mask is 0.
PaddingVariant(inputs, masks, seed2) ==
    LET other == GenTensor(seed2, Len(inputs), Len(inputs[1]), Len(inputs[1][1]))
    IN  [b \in 1..Len(inputs) |-> [t \in 1..Len(inputs[b]) |->
            IF masks[b][t] = 1 THEN inputs[b][t] ELSE other[b][t]]]

LayerPass(e, l, xs, len, nseed, b) ==
    BidirectionalRnn(e.rnn_cells_fw[l], e.rnn_cells_bw[l], xs, len, nseed, b)

\* The output of the first layers passes of e on batch element b, written
\* out pass by pass: every pass reads the pass before it, all with the one
\* sequence length of the batch element.
PassByPass(e, layers, xs, len, nseed, b) ==
    LET pass1 == LayerPass(e, 1, xs, len, nseed, b)
        pass2 == LayerPass(e, 2, pass1, len, nseed, b)
        pass3 == LayerPass(e, 3, pass2, len, nseed, b)
    IN  CASE layers = 1 -> pass1
          [] layers = 2 -> pass2
          [] layers = 3 -> pass3

\* C11: an encoder of a supported mode holds num_layers forward and
\* num_layers backward cells; its forward pass returns (batch, seq_len,
\* 2 * hidden_size) with one layer and with several, and at keep-probability
\* 1 the output is that of num_layers bidirectional passes, each reading the
\* concatenated output of the pass before it with the same sequence lengths.
C11_LayersAndShape ==
    (enc.constructed /\ enc.mode \in SupportedModes) =>
        /\ Len(enc.rnn_cells_fw) = enc.num_layers
        /\ Len(enc.rnn_cells_bw) = enc.num_layers
        /\ EncoderReturned =>
            /\ Len(ret.out) = Len(args.inputs)
            /\ \A b \in 1..Len(args.inputs) :
                /\ Len(ret.out[b]) = Len(args.inputs[b])
                /\ \A t \in 1..Len(args.inputs[b]) :
                       Len(ret.out[b][t]) = 2 * enc.hidden_size
                /\ (enc.keep_den = 1 /\ enc.num_layers <= 3) =>
                       ret.out[b] = PassByPass(enc, enc.num_layers, args.inputs[b],
                                               Sum(args.masks[b]), args.nseed, b)

\* A returned pass of a two-layer LSTM encoder over a sequence of three
\* positions whose output is not that of the first layer alone.
C11_Witness ==
    /\ EncoderReturned /\ enc.keep_den = 1
    /\ enc.mode = "LSTM" /\ enc.num_layers = 2
    /\ Len(enc.rnn_cells_fw) = 2 /\ Len(enc.rnn_cells_bw) = 2
    /\ Len(args.inputs[1]) = 3 /\ args.masks[1] = <<1, 1, 1>>
    /\ Len(ret.out[1][3]) = 2 * enc.hidden_size
    /\ ret.out[1] # PassByPass(enc, 1, args.inputs[1], 3, args.nseed, 1)

\* ------------------------------------------- claims on the four forward passes

SpecForward ==
    Idle /\ [][ConstructRNNEncoder \/ CallEncoderBuildGraph \/ CallBasicAttn
                \/ CallSelfAttn \/ CallBidirectionAttn]_vars

\* The noises a second forward pass may draw that the first did not.
OtherNoises == {0, 1} \ {args.nseed}

\* C12: at keep-probability 1 a second forward pass of RNNEncoder, BasicAttn,
\* SelfAttn or BidirectionAttn on the same inputs, masks and parameters, with
\* whatever noise the dropouts draw, returns what the first pass returned.
C12_DeterministicAtKeepOne ==
    /\ (EncoderReturned /\ enc.keep_den = 1) =>
          \A n2 \in OtherNoises :
              RNNEncoder_build_graph(enc, args.inputs, args.masks, n2).out = ret.out
    /\ (pc = "returned" /\ fn = "BasicAttn.build_graph" /\ args.keep_den = 1) =>
          \A n2 \in OtherNoises :
              LET again == BasicAttn_build_graph(args.values, args.values_mask,
                                                 args.keys, 1, n2)
              IN  again.output = ret.output /\ again.attn_dist = ret.attn_dist
    /\ (pc = "returned" /\ fn = "SelfAttn.build_graph" /\ args.keep_den = 1) =>
          \A n2 \in OtherNoises :
              LET again == SelfAttn_build_graph(args.contexts, args.contexts_mask,
                                                args.W1, args.W2, args.v, 1, n2)
              IN  again.output = ret.output /\ again.attn_p = ret.attn_p
    /\ (BidafReturned /\ args.keep_den = 1) =>
          \A n2 \in OtherNoises :
              LET again == BidirectionAttn_build_graph(args.questions,
                               args.questions_mask, args.contexts,
                               args.contexts_mask, args.w, 1, n2)
              IN  /\ again.output = ret.output
                  /\ again.alpha = ret.alpha /\ again.beta = ret.beta

\* A pass of BidirectionAttn at keep-probability 1 whose output is not zero
\* at an entry that the other noise would have dropped at keep-probability
\* 1/2.
C12_Witness ==
    /\ BidafReturned /\ args.keep_den = 1
    /\ Len(args.contexts[1]) = 2
    /\ \E n2 \in OtherNoises : \E i \in 1..2 : \E k \in 1..Len(ret.output[1][i]) :
        /\ ret.output[1][i][k] # Zero
        /\ NoiseBit(n2, 1, i, k) = 0

\* --------------------------------------------- claims on SimpleSoftmaxLayer

SpecSimpleSoftmax == Idle /\ [][CallSimpleSoftmaxLayer]_vars

SimpleSoftmaxReturned == pc = "returned" /\ fn = "SimpleSoftmaxLayer.build_graph"

\* The linear projection of position t of batch element b.
Projection(b, t) == Dot(args.inputs[b][t], args.weights) + args.bias

\* C13: the layer returns logits and prob_dist of shape (batch, seq_len);
\* the logits are the projection where the mask is 1 and the projection
\* plus -1e30 where it is 0; prob_dist is 0 at every masked position and
\* sums to 1 over the sequence when the sequence has a real token.
C13_SimpleSoftmaxLayer ==
    SimpleSoftmaxReturned =>
        /\ Len(ret.logits) = Len(args.inputs)
        /\ Len(ret.prob_dist) = Len(args.inputs)
        /\ \A b \in 1..Len(args.inputs) :
            /\ Len(ret.logits[b]) = Len(args.inputs[b])
            /\ Len(ret.prob_dist[b]) = Len(args.inputs[b])
            /\ \A t \in 1..Len(args.inputs[b]) :
                /\ ret.logits[b][t] =
                       IF args.masks[b][t] = 1 THEN Projection(b, t)
                       ELSE FloatAdd(Projection(b, t), NEG_LARGE)
                /\ args.masks[b][t] = 0 => ret.logits[b][t] # Projection(b, t)
            /\ HasValid(args.masks[b]) =>
                   IsMaskedDist(ret.prob_dist[b], args.masks[b])

\* A pass over a real token followed by a padding token whose projection is
\* not zero.
C13_Witness ==
    /\ SimpleSoftmaxReturned
    /\ args.masks[1] = <<1, 0>>
    /\ Projection(1, 1) # 0 /\ Projection(1, 2) # 0
    /\ ret.logits[1][1] = Projection(1, 1)
    /\ ret.logits[1][2] <= NEG_LARGE
    /\ ret.prob_dist[1] = <<One, Zero>>

\* ------------------------------------------ claims on SelfAttn's variables

SpecSelfAttnVariables == Idle /\ [][SelfAttnGetVariables]_vars

\* C14: building SelfAttn layers into one graph never fails on a variable
\* that exists already, and no two layers that were built hold the same W1,
\* W2 or v.
C14_NoParameterCollision ==
    fn = "SelfAttn.get_variables" =>
        /\ ~(pc = "raised" /\ ret.error = "already exists")
        /\ \A i, j \in 1..Len(store.layers) :
               i # j =>
                   /\ store.layers[i].weights_1 # store.layers[j].weights_1
                   /\ store.layers[i].weights_2 # store.layers[j].weights_2
                   /\ store.layers[i].v # store.layers[j].v

\* ----------------------------------------- claims on main and initialize_model

SpecMain == Idle /\ [][CallInitializeModel \/ CallMain]_vars

\* C15: main dispatches every mode that the help text of --mode lists to a
\* handler and raises 'Unexpected value of FLAGS.mode' for no such mode.
C15_DocumentedModesDispatched ==
    (fn = "main" /\ args.argc = 1 /\ args.flags.mode \in DocumentedModes
        /\ args.flags.experiment_name /\ args.flags.json_in_path
        /\ args.flags.ckpt_load_dir) =>
        /\ ret.error # UnexpectedModeError
        /\ ret.error = "none" => ret.handler = args.flags.mode

\* A checkpoint that initialize_model restores from.
Usable(ckpt) == ckpt.record /\ (ckpt.file \/ ckpt.index)

\* The checkpoint of the directory that the branch of a mode loads from.
CheckpointOf(mode) ==
    CASE mode \in {"train", "test"} -> args.ckpts.train_dir
      [] mode \in {"show_examples", "visualize"} -> args.ckpts.bestmodel_dir
      [] OTHER -> args.ckpts.ckpt_load_dir

\* C17: initialize_model restores and never initializes when the checkpoint
\* record and its file or its .index exist; otherwise it raises and leaves
\* the session alone with expect_exists, and runs the initializer once
\* without it.  So train and test never fail on a missing checkpoint, and
\* show_examples, visualize, ensemble_write and official_eval always fail
\* on one.
C17_InitializeModel ==
    /\ fn = "initialize_model" =>
          IF Usable(args.ckpt)
          THEN pc = "returned" /\ sess = [restored |-> 1, initialized |-> 0]
          ELSE IF args.expect_exists
               THEN pc = "raised" /\ sess = NewSession
               ELSE pc = "returned" /\ sess = [restored |-> 0, initialized |-> 1]
    /\ (fn = "main" /\ ~Usable(CheckpointOf(args.flags.mode))) =>
          /\ args.flags.mode \in {"train", "test"} =>
                /\ ret.error # NoCheckpointError
                /\ ret.error = "none" =>
                       sess = [restored |-> 0, initialized |-> 1]
          /\ args.flags.mode \in {"show_examples", "visualize",
                                   "ensemble_write", "official_eval"} =>
                pc = "raised" /\ sess = NewSession

\* A run of official_eval with its flags given whose checkpoint record
\* names a file that does not exist, and that fails on it.
C17_Witness ==
    /\ fn = "main" /\ pc = "raised"
    /\ args.argc = 1 /\ args.flags.mode = "official_eval"
    /\ args.flags.json_in_path /\ args.flags.ckpt_load_dir
    /\ args.ckpts.ckpt_load_dir = [record |-> TRUE, file |-> FALSE, index |-> FALSE]
    /\ ret.error = NoCheckpointError
    /\ sess = NewSession

\* ------------------------------------------- claims on SelfAttn's scores

SelfAttnReturned == pc = "returned" /\ fn = "SelfAttn.build_graph"

\* The product x W of a row vector and a matrix, entry c.
RowTimes(x, W, c) == Sum([k \in 1..Len(x) |-> x[k] * W[k][c]])

\* v . tanh(W1 * c_j + W2 * c_i) for the positions i and j of batch element b.
PairScore(b, i, j) ==
    Sum([c \in 1..Len(args.v) |->
            Tanh(RowTimes(args.contexts[b][j], args.W1, c)
                 + RowTimes(args.contexts[b][i], args.W2, c)) * args.v[c][1]])

\* C16: E[b,i,j] = v . tanh(W1 * c_j + W2 * c_i); the softmax is over j; for
\* every valid position i the pair (i, i) is unmasked and attn_p[b,i,i] is
\* not 0.
C16_SelfAttnScores ==
    SelfAttnReturned =>
        \A b \in 1..Len(args.contexts) :
            LET N == Len(args.contexts[b]) IN
            /\ \A i, j \in 1..N : ret.E[b][i][j] = PairScore(b, i, j)
            /\ \A i \in 1..N :
                args.contexts_mask[b][i] = 1 =>
                    /\ RatSum(ret.attn_p[b][i]) = One
                    /\ ret.E_mask[b][i][i] = 1
                    /\ ret.attn_p[b][i][i] # Zero

\* A pass over two valid positions whose scores for the pairs (1, 2) and
\* (2, 1) differ and in which position 1 attends to itself and to position 2.
C16_Witness ==
    /\ SelfAttnReturned
    /\ args.contexts_mask[1] = <<1, 1>>
    /\ ret.E[1][1][2] # ret.E[1][2][1]
    /\ ret.attn_p[1][1][1] # Zero /\ ret.attn_p[1][1][2] # Zero

\* ------------------------------- claims on BidirectionAttn's padded positions

\* C18: sum(alpha[b,i,:]) = 1 at every context position of every batch
\* element; the row of a padded context position, whose similarities are all
\* masked, is a distribution too and not a row of zeros.
C18_AlphaRowsSumToOne ==
    BidafReturned =>
        \A b \in 1..Len(args.contexts) : \A i \in 1..Len(args.contexts[b]) :
            /\ RatSum(ret.alpha[b][i]) = One
            /\ args.contexts_mask[b][i] = 0 =>
                   \E j \in 1..Len(ret.alpha[b][i]) : ret.alpha[b][i][j] # Zero

\* A pass whose second context position is padding and whose question has
\* two real tokens: the padded row of alpha is uniform.
C18_Witness ==
    /\ BidafReturned
    /\ args.contexts_mask[1] = <<1, 0>>
    /\ args.questions_mask[1] = <<1, 1>>
    /\ ret.S_mask[1][2] = <<0, 0>>
    /\ ret.alpha[1][2] = <<(<<1, 2>>), (<<1, 2>>)>>

\* The context positions of batch element b that are padding.
PaddedContexts(b) ==
    {i \in 1..Len(args.contexts[b]) : args.contexts_mask[b][i] = 0}

\* C19: in a batch element with a valid context position and a valid
\* question position beta is 0 at every padded context position; when the
\* question has no valid position beta is not 0 at the padded context
\* positions.
C19_BetaOnPaddedContexts ==
    BidafReturned =>
        \A b \in 1..Len(args.contexts) :
            /\ (HasValid(args.contexts_mask[b]) /\ HasValid(args.questions_mask[b])) =>
                   \A i \in PaddedContexts(b) : ret.beta[b][i] = Zero
            /\ ~HasValid(args.questions_mask[b]) =>
                   \A i \in PaddedContexts(b) : ret.beta[b][i] # Zero

\* A pass over a real and a padded context position whose question has a
\* real token, and in which the unmasked softmax still gives the padded
\* position weight 0.
C19_Witness ==
    /\ BidafReturned
    /\ args.contexts_mask[1] = <<1, 0>>
    /\ args.questions_mask[1] = <<1, 0>>
    /\ args.contexts[1][2] # args.contexts[1][1]
    /\ ret.beta[1] = <<One, Zero>>

====
